---- MODULE Spec2Model ----
(***************************************************************************)
(* LectureLens worker backend: the RateLimiter and LectureMemory Durable   *)
(* Objects (worker-backend/src/RateLimiter.ts, LectureMemory.ts).          *)
(*                                                                         *)
(* One Durable Object instance owns the durable storage of one key.  The   *)
(* runtime delivers no new event to an instance while one of its storage   *)
(* operations is pending (the input gate), so a handler whose only awaits  *)
(* are storage operations runs without interleaving; an await on anything  *)
(* else (the Workers AI binding) leaves the gate open and other requests   *)
(* to the same instance are delivered meanwhile.                           *)
(***************************************************************************)
EXTENDS Integers, Sequences, FiniteSets, TLC

VARIABLES
    now,        \* Date.now(), milliseconds
    limits,     \* RateLimiter storage under STORAGE_KEY: [present, value]
    rl,         \* RateLimiter requests: slot -> position and locals
    issued,     \* ghost: endpoint -> check-and-increment calls delivered in the current window
    incs,       \* ghost: endpoint -> increments applied to the current window
    rawText,    \* LectureMemory storage under "raw_lecture_text": [present, value]
    history,    \* LectureMemory storage under "chat_history": [present, messages]
    chat,       \* LectureMemory /chat requests: request -> position and locals
    turns,      \* ghost: the /chat calls in the order their handlers started
    overlap,    \* ghost: a /chat handler started while another one was suspended
    pipe,       \* the summarize / extract pipeline of one gateway request
    gw,         \* the gateway: the request being handled, its position and locals
    owned,      \* D1: user_lectures has the row of the user and the lecture
    restarts    \* ghost: the times an instance was evicted and constructed again

rlVars == <<limits, rl, issued, incs>>
lmVars == <<rawText, history, chat, turns, overlap>>
pipeVars == <<pipe>>
gwVars == <<gw, owned>>
vars == <<now, limits, rl, issued, incs, rawText, history, chat, turns, overlap, pipe,
          gw, owned, restarts>>

----------------------------------------------------------------------------
(* Bounds of the model *)

\* number of whitespace-delimited tokens of a text given to the pipeline
MaxTokens == 3
\* number of requests to one RateLimiter instance that can be in flight at once
MaxInflight == 2
\* the clock runs over the windows 0..MaxWindows of one hour
MaxWindows == 1
\* number of times the instances are evicted from memory in a run
MaxRestarts == 1
\* number of /chat requests sent to one LectureMemory instance in a run
MaxChats == 2
\* the clock of a LectureMemory run takes the values 0..MaxChatClock
MaxChatClock == 1

----------------------------------------------------------------------------
(* RateLimiter.ts *)

RATE_LIMIT_CONFIG ==
    [ chat      |-> [maxRequests |-> 15, windowSeconds |-> 60],
      summarize |-> [maxRequests |-> 5,  windowSeconds |-> 3600],
      extract   |-> [maxRequests |-> 5,  windowSeconds |-> 3600],
      upload    |-> [maxRequests |-> 10, windowSeconds |-> 3600],
      signup    |-> [maxRequests |-> 3,  windowSeconds |-> 3600],
      login     |-> [maxRequests |-> 10, windowSeconds |-> 3600] ]

MsPerSecond == 1000
SentinelLimit == 999999
SentinelResetMs == 3600000

\* the endpoint names the requests of the model carry: two configured ones
\* and one without a policy
Endpoints == {"signup", "summarize", "bogus"}
Configured(endpoint) == endpoint \in DOMAIN RATE_LIMIT_CONFIG

\* the instants Date.now() takes: around the start and the end of each
\* one-hour window
HourMs == 3600 * MsPerSecond
ClockOffsets == {0, HourMs - 1}
ClockValues == {k * HourMs + o : k \in 0..MaxWindows, o \in ClockOffsets}

Slots == 1..MaxInflight
Ops == {"check", "check-and-increment", "reset", "reset-all"}

NoLimits == [e \in {} |-> 0]
NoStorage == [present |-> FALSE, value |-> NoLimits]
\* (await this.state.storage.get(STORAGE_KEY)) || {}
LoadLimits(st) == IF st.present THEN st.value ELSE NoLimits

NoWindow == [has |-> FALSE, count |-> 0, windowStart |-> 0]
\* ghost: the stored window of the endpoint, as a record of fixed shape
WindowOf(st, endpoint) ==
    IF endpoint \in DOMAIN LoadLimits(st)
    THEN [has |-> TRUE, count |-> LoadLimits(st)[endpoint].count,
          windowStart |-> LoadLimits(st)[endpoint].windowStart]
    ELSE NoWindow
NoStatus == [allowed |-> FALSE, limit |-> 0, remaining |-> 0, resetAt |-> 0, retryAfter |-> 0]

\* Ceil as it would be with Math.floor in place of Math.ceil
Ceil_floor(a, b) == a \div b
\* Math.ceil(a / b), b > 0
Ceil(a, b) == -((-a) \div b)
Max(a, b) == IF a >= b THEN a ELSE b
Min(a, b) == IF a <= b THEN a ELSE b

\* PutWindow as it would be with the map rebuilt from the one window written
PutWindow_only(lim, endpoint, window) == [e \in {endpoint} |-> window]
\* limits[endpoint] = window
PutWindow(lim, endpoint, window) ==
    [e \in (DOMAIN lim) \cup {endpoint} |-> IF e = endpoint THEN window ELSE lim[e]]

\* Expired as it would be with > in place of >=: a window kept through the instant it ends at
Expired_late(lim, endpoint, t) ==
    \/ endpoint \notin DOMAIN lim
    \/ t > lim[endpoint].windowStart + lim[endpoint].windowDuration
\* !window || now >= window.windowStart + window.windowDuration
Expired(lim, endpoint, t) ==
    \/ endpoint \notin DOMAIN lim
    \/ t >= lim[endpoint].windowStart + lim[endpoint].windowDuration

\* FreshWindow as it would be with the start of the window counted back from
\* the instant of the call
FreshWindow_backdated(endpoint, t) ==
    [count |-> 0, windowStart |-> 0 - t,
     windowDuration |-> RATE_LIMIT_CONFIG[endpoint].windowSeconds * MsPerSecond]
\* window = {count: 0, windowStart: now, windowDuration: config.windowSeconds * 1000}
FreshWindow(endpoint, t) ==
    [count |-> 0, windowStart |-> t,
     windowDuration |-> RATE_LIMIT_CONFIG[endpoint].windowSeconds * MsPerSecond]

\* RateLimiter.checkLimit: the status returned and the storage left
checkLimit(endpoint, t, st) ==
    IF ~Configured(endpoint)
    THEN [status |-> [allowed |-> TRUE, limit |-> SentinelLimit, remaining |-> SentinelLimit,
                      resetAt |-> t + SentinelResetMs, retryAfter |-> 0],
          storage |-> st]
    ELSE LET maxRequests == RATE_LIMIT_CONFIG[endpoint].maxRequests
             lim == LoadLimits(st)
             fresh == Expired(lim, endpoint, t)
             window == IF fresh THEN FreshWindow(endpoint, t) ELSE lim[endpoint]
             st2 == IF fresh
                    THEN [present |-> TRUE, value |-> PutWindow(lim, endpoint, window)]
                    ELSE st
             resetAt == window.windowStart + window.windowDuration
         IN  IF window.count >= maxRequests
             THEN [status |-> [allowed |-> FALSE, limit |-> maxRequests, remaining |-> 0,
                               resetAt |-> resetAt,
                               retryAfter |-> Max(0, Ceil(resetAt - t, MsPerSecond))],
                   storage |-> st2]
             ELSE [status |-> [allowed |-> TRUE, limit |-> maxRequests,
                               remaining |-> maxRequests - window.count,
                               resetAt |-> resetAt, retryAfter |-> 0],
                   storage |-> st2]

\* incrementCounter as it would be without the early return for an endpoint
\* that has no policy, counting it in an hour-long window instead
incrementCounter_unguarded(endpoint, t, st) ==
    LET lim == LoadLimits(st)
        window == IF Expired(lim, endpoint, t)
                  THEN [count |-> 0, windowStart |-> t,
                        windowDuration |->
                            IF Configured(endpoint)
                            THEN RATE_LIMIT_CONFIG[endpoint].windowSeconds * MsPerSecond
                            ELSE SentinelResetMs]
                  ELSE lim[endpoint]
        bumped == [window EXCEPT !.count = @ + 1]
    IN  [present |-> TRUE, value |-> PutWindow(lim, endpoint, bumped)]
\* RateLimiter.incrementCounter: the storage left
incrementCounter(endpoint, t, st) ==
    IF ~Configured(endpoint)
    THEN st
    ELSE LET lim == LoadLimits(st)
             window == IF Expired(lim, endpoint, t) THEN FreshWindow(endpoint, t)
                       ELSE lim[endpoint]
             bumped == [window EXCEPT !.count = @ + 1]
         IN  [present |-> TRUE, value |-> PutWindow(lim, endpoint, bumped)]

\* resetEndpoint as it would be if the whole map were emptied
resetEndpoint_all(endpoint, st) == [present |-> TRUE, value |-> NoLimits]
\* RateLimiter.handleReset: delete limits[endpoint], put
resetEndpoint(endpoint, st) ==
    LET lim == LoadLimits(st)
    IN  [present |-> TRUE, value |-> [e \in (DOMAIN lim) \ {endpoint} |-> lim[e]]]

\* the event loop of one instance: the handler of request c has started and
\* has not returned its Response; its only awaits are storage operations
InHandler(c) == rl[c].pc \in {"increment", "recheck", "done"}
\* InputGateOpen as it would be with an await on something other than storage in the handler
InputGateOpen_always == TRUE
\* no new request is delivered while a handler is between storage operations
InputGateOpen == \A c \in Slots : ~InHandler(c)

IdleRequest ==
    [pc |-> "idle", op |-> "check", endpoint |-> "bogus", resp |-> NoStatus,
     pre |-> NoWindow, t0 |-> 0, nth |-> 0, threw |-> FALSE, caught |-> FALSE]

\* the status of the Response of fetch: 200 from a handler that returned, 500
\* from the catch block
ResponseStatus(r) == IF r.caught THEN 500 ELSE 200

\* ghost bookkeeping: a window of the endpoint was started by this step
Started(endpoint, st, st2) ==
    /\ Configured(endpoint)
    /\ endpoint \in DOMAIN LoadLimits(st2)
    /\ \/ endpoint \notin DOMAIN LoadLimits(st)
       \/ LoadLimits(st)[endpoint].windowStart # LoadLimits(st2)[endpoint].windowStart
       \/ LoadLimits(st2)[endpoint].count < LoadLimits(st)[endpoint].count

IssuedCap(endpoint) ==
    IF Configured(endpoint) THEN RATE_LIMIT_CONFIG[endpoint].maxRequests + 1 ELSE 0


----------------------------------------------------------------------------
(* LectureMemory.ts *)

ChatSlots == 1..MaxChats
\* the message of a /chat request body, the reply of the model, the text of a
\* /lecture request body
Messages == {"q1", "q2"}
Replies == {"a1"}
LectureTexts == {"", "lecture A", "lecture B"}

NoHistory == [present |-> FALSE, messages |-> <<>>]
NoMessage == [role |-> "none", content |-> "", timestamp |-> 0]
ChatMessage(role, content, t) == [role |-> role, content |-> content, timestamp |-> t]

\* LoadHistory as it would be if the handler started from an empty history
LoadHistory_empty(st) == <<>>
\* (await this.state.storage.get(HISTORY_KEY)) || {messages: []}
LoadHistory(st) == IF st.present THEN st.messages ELSE <<>>

\* PutHistory as it would be if the put were left out
PutHistory_skip(st, messages) == st
\* await this.state.storage.put(HISTORY_KEY, history)
PutHistory(st, messages) == [present |-> TRUE, messages |-> messages]

\* the handler is at await this.env.AI.run(...): not a storage operation, so
\* the input gate is open and other requests to the instance are delivered
Suspended(c) == chat[c].pc = "ai"

\* lectureStatus as it would be without the check of the lectureText property
lectureStatus_unchecked(lectureText) == 200
\* /lecture: the status of the response: 400 for a missing or empty lectureText
lectureStatus(lectureText) == IF lectureText = "" THEN 400 ELSE 200

\* const systemPrompt = "You are LectureLens, ... Respond concisely and helpfully."
systemPrompt == "You are LectureLens"

RECURSIVE MapRoleContent(_)
\* history.messages.map(msg => ({role: msg.role, content: msg.content}))
MapRoleContent(messages) ==
    IF messages = <<>> THEN <<>>
    ELSE <<[role |-> Head(messages).role, content |-> Head(messages).content]>>
         \o MapRoleContent(Tail(messages))

\* aiMessages as it would be if only the newest message were sent to the model
aiMessages_newest(messages) ==
    <<[role |-> "system", content |-> systemPrompt]>>
    \o MapRoleContent(<<messages[Len(messages)]>>)
\* const messages = [{role: 'system', content: systemPrompt}, ...aiMessage]
aiMessages(messages) ==
    <<[role |-> "system", content |-> systemPrompt]>> \o MapRoleContent(messages)

IdleChat ==
    [pc |-> "idle", local |-> <<>>, input |-> <<>>, status |-> 0, response |-> "",
     turn |-> 0, timedOut |-> FALSE, threw |-> FALSE]

----------------------------------------------------------------------------
(* index.ts: the chunked pipeline of /api/summarize and /api/extract-concepts *)

\* const MAX_CHARS_PER_CHUNK = 12000
MAX_CHARS_PER_CHUNK == 12000

\* A string is a sequence of runs of characters: a run of len whitespace
\* characters (tok = 0) or the len characters of the tok-th token of the text,
\* none of them whitespace.
Ws(n) == [tok |-> 0, len |-> n]
Token(k, n) == [tok |-> k, len |-> n]
IsWs(run) == run.tok = 0
Space == <<Ws(1)>>

\* the lengths of the tokens and of the whitespace runs of the texts tried
TokenLens == {1, 5998, 9999, 11999, 12000, 12001}
LeadLens == {0, 1, 12001}
TrailLens == {0, 1}
GapLens == {1, 2}

RECURSIVE MkTokens(_, _, _)
MkTokens(lens, k, gap) ==
    IF lens = <<>> THEN <<>>
    ELSE (IF k > 1 THEN <<Ws(gap)>> ELSE <<>>) \o <<Token(k, Head(lens))>>
         \o MkTokens(Tail(lens), k + 1, gap)
\* the text with the given token lengths, leading and trailing whitespace and
\* whitespace between the tokens
MkText(lens, lead, trail, gap) ==
    (IF lead > 0 THEN <<Ws(lead)>> ELSE <<>>) \o MkTokens(lens, 1, gap)
    \o (IF trail > 0 THEN <<Ws(trail)>> ELSE <<>>)

TokenSeqs == UNION {[1..n -> TokenLens] : n \in 0..MaxTokens}
Texts ==
    {MkText(lens, lead, trail, gap) :
        lens \in TokenSeqs, lead \in LeadLens, trail \in TrailLens, gap \in GapLens}
    \ {<<>>}

RECURSIVE StrLen(_)
\* String.prototype.length
StrLen(str) == IF str = <<>> THEN 0 ELSE Head(str).len + StrLen(Tail(str))

RECURSIVE TrimStart(_)
TrimStart(str) ==
    IF str # <<>> /\ IsWs(Head(str)) THEN TrimStart(Tail(str)) ELSE str
RECURSIVE TrimEnd(_)
TrimEnd(str) ==
    IF str # <<>> /\ IsWs(str[Len(str)]) THEN TrimEnd(SubSeq(str, 1, Len(str) - 1)) ELSE str
\* String.prototype.trim
Trim(str) == TrimEnd(TrimStart(str))

RECURSIVE SplitFrom(_, _, _)
\* the words of str after the word cur in progress; inWs: the previous
\* character was whitespace
SplitFrom(str, cur, inWs) ==
    IF str = <<>> THEN <<cur>>
    ELSE IF IsWs(Head(str))
         THEN IF inWs THEN SplitFrom(Tail(str), cur, TRUE)
              ELSE <<cur>> \o SplitFrom(Tail(str), <<>>, TRUE)
         ELSE SplitFrom(Tail(str), cur \o <<Head(str)>>, FALSE)
\* text.split(/\s+/): leading or trailing whitespace gives an empty first or
\* last word
Split(str) == SplitFrom(str, <<>>, FALSE)

\* Fits as it would be if the separating space were not counted
Fits_noSpace(currentChunk, word) ==
    StrLen(currentChunk \o word) <= MAX_CHARS_PER_CHUNK
\* !((currentChunk + ' ' + word).length > MAX_CHARS_PER_CHUNK)
Fits(currentChunk, word) ==
    StrLen(currentChunk \o Space \o word) <= MAX_CHARS_PER_CHUNK

\* IsShort as it would be with < in place of <=
IsShort_strict(text) == StrLen(text) < MAX_CHARS_PER_CHUNK
\* if (text.length <= MAX_CHARS_PER_CHUNK)
IsShort(text) == StrLen(text) <= MAX_CHARS_PER_CHUNK

RECURSIVE chunkLoop_dropWord(_, _, _)
\* chunkLoop as it would be if the word that does not fit were not carried
\* over into the next chunk
chunkLoop_dropWord(words, currentChunk, chunks) ==
    IF words = <<>>
    THEN IF Trim(currentChunk) # <<>> THEN Append(chunks, Trim(currentChunk)) ELSE chunks
    ELSE LET word == Head(words)
         IN  IF ~Fits(currentChunk, word)
             THEN chunkLoop_dropWord(Tail(words), <<>>, Append(chunks, Trim(currentChunk)))
             ELSE chunkLoop_dropWord(Tail(words), currentChunk \o Space \o word, chunks)
RECURSIVE chunkLoop(_, _, _)
\* for (const word of words) {...}; if (currentChunk.trim()) chunks.push(...)
chunkLoop(words, currentChunk, chunks) ==
    IF words = <<>>
    THEN IF Trim(currentChunk) # <<>> THEN Append(chunks, Trim(currentChunk)) ELSE chunks
    ELSE LET word == Head(words)
         IN  IF ~Fits(currentChunk, word)
             THEN chunkLoop(Tail(words), word, Append(chunks, Trim(currentChunk)))
             ELSE chunkLoop(Tail(words), currentChunk \o Space \o word, chunks)

\* the chunk list of a long document
chunkText(text) == chunkLoop(Split(text), <<>>, <<>>)

Modes == {"summarize", "extract"}
\* response.response of the k-th env.AI.run call of the request
AiResponse(k) == [reply |-> k]
\* chunkSummaries[0] of an empty list
Undefined == [reply |-> 0]
AiCall(kind, part, of, input, sections) ==
    [kind |-> kind, part |-> part, of |-> of, input |-> input, sections |-> sections]

\* Sections as it would be if the summaries were listed last chunk first
Sections_reversed(chunkSummaries) ==
    [i \in 1..Len(chunkSummaries) |->
        [section |-> i, text |-> chunkSummaries[Len(chunkSummaries) + 1 - i]]]
\* chunkSummaries.map((s, i) => `--- Section ${i + 1} ---\n${s}`).join('\n\n')
Sections(chunkSummaries) ==
    [i \in 1..Len(chunkSummaries) |-> [section |-> i, text |-> chunkSummaries[i]]]

\* ghost: the chunks and the calls of the request made before on the same text
NoFlow == [has |-> FALSE, chunks |-> <<>>, calls |-> <<>>, status |-> 0]

IdlePipe ==
    [pc |-> "idle", mode |-> "summarize", text |-> <<>>, chunks |-> <<>>,
     chunkSummaries |-> <<>>, calls |-> <<>>, status |-> 0, result |-> Undefined,
     first |-> NoFlow]

\* NeedsCombine as it would be if only the summarize pipeline had the combine
\* step
NeedsCombine_summarizeOnly(chunkSummaries) ==
    pipe.mode = "summarize" /\ Len(chunkSummaries) > 1

\* NeedsCombine as it would be if a combine call were made for any chunk list
NeedsCombine_always(chunkSummaries) == TRUE
\* if (chunkSummaries.length > 1)
NeedsCombine(chunkSummaries) == Len(chunkSummaries) > 1

\* the request after the per-chunk loop has ended: go on to the combine call,
\* or answer 200 with chunkSummaries[0]
afterLoop(p) ==
    IF Len(p.chunkSummaries) < Len(p.chunks) THEN p
    ELSE IF NeedsCombine(p.chunkSummaries) THEN [p EXCEPT !.pc = "combine"]
    ELSE [p EXCEPT !.pc = "done", !.status = 200,
                   !.result = IF p.chunkSummaries = <<>> THEN Undefined
                              ELSE p.chunkSummaries[1]]

----------------------------------------------------------------------------
(* index.ts: the gateway *)

Routes == {"chat", "summarize", "upload", "extract"}
\* the endpoint name each route passes to checkRateLimit
EndpointOf(route) == route

\* RateLimiter.handleCheckAndIncrement run to its end at one instant
checkAndIncrement(endpoint, t, st) ==
    LET first == checkLimit(endpoint, t, st)
    IN  IF first.status.allowed
        THEN checkLimit(endpoint, t, incrementCounter(endpoint, t, first.storage))
        ELSE first

\* a storage in which the window of the endpoint is used up
FullStorage(endpoint, t) ==
    [present |-> TRUE,
     value |-> PutWindow(NoLimits, endpoint,
                         [FreshWindow(endpoint, t) EXCEPT
                             !.count = RATE_LIMIT_CONFIG[endpoint].maxRequests])]

\* what the gateway's stub.fetch to the RateLimiter can give: the actor's
\* answer on an unused or a used-up window, the actor's 500, or an exception
\* counted: by how much the call raised the count stored for the endpoint in
\* the caller's RateLimiter (0 when the call failed before the increment)
RlReplies(endpoint, t) ==
    {[kind |-> "ok", status |-> checkAndIncrement(endpoint, t, st).status,
      counted |-> WindowOf(checkAndIncrement(endpoint, t, st).storage, endpoint).count
                  - WindowOf(st, endpoint).count] :
        st \in {NoStorage, FullStorage(endpoint, t)}}
    \cup {[kind |-> "status500", status |-> NoStatus, counted |-> 0],
          [kind |-> "threw", status |-> NoStatus, counted |-> 0]}

\* checkRateLimit as it would be if it denied the request when the call fails
checkRateLimit_failClosed(reply, t) ==
    IF reply.kind = "ok" THEN reply.status
    ELSE [allowed |-> FALSE, limit |-> 0, remaining |-> 0,
          resetAt |-> t + SentinelResetMs, retryAfter |-> 0]
\* checkRateLimit: the status from the actor, or the fail-open status of the
\* catch block when the fetch threw or the response was not ok
checkRateLimit(reply, t) ==
    IF reply.kind = "ok" THEN reply.status
    ELSE [allowed |-> TRUE, limit |-> SentinelLimit, remaining |-> SentinelLimit,
          resetAt |-> t + SentinelResetMs, retryAfter |-> 0]

NoRateLimitBody == [retryAfter |-> 0, limit |-> 0, resetAt |-> 0]
\* createRateLimitResponse as it would be without resetAt in the body
createRateLimitResponse_noResetAt(status) ==
    [status |-> 429,
     body |-> [retryAfter |-> status.retryAfter, limit |-> status.limit, resetAt |-> 0]]
\* createRateLimitResponse: 429 and the body built from the status
createRateLimitResponse(status) ==
    [status |-> 429,
     body |-> [retryAfter |-> status.retryAfter, limit |-> status.limit,
               resetAt |-> status.resetAt]]

\* a Response of the LectureMemory actor: json tells whether the body parses
\* as JSON, rawText is the rawText property of the parsed body
DoResponse(status, json, body) ==
    [status |-> status, json |-> json, body |-> body, rawText |-> ""]
NoDoResponse == DoResponse(0, FALSE, "")
Ok_any(response) == TRUE
\* Response.ok
Ok(response) == response.status >= 200 /\ response.status <= 299

\* the paths a request is forwarded to the actor with, besides /chat
ForwardPaths == {"/lecture", "/raw-lecture-text"}

\* what a call of the actor can meet: its storage works, a storage operation
\* throws, or the fetch throws before the actor runs
ActorOutcomes == {"ok", "storageFails", "threw"}

\* LectureMemory.fetch for a path other than /chat: the Response and the
\* storage left under "raw_lecture_text"; putOk is FALSE when
\* this.state.storage.put throws into the catch block of /lecture
lectureMemoryFetch(path, lectureText, st, putOk) ==
    IF path = "/lecture"
    THEN IF lectureStatus(lectureText) = 400
         THEN [response |-> DoResponse(400, FALSE, "Missing lectureText property in the body"),
               storage |-> st]
         ELSE IF ~putOk
         THEN [response |-> DoResponse(500, TRUE, "Fail to process the lecture content"),
               storage |-> st]
         ELSE [response |-> DoResponse(200, TRUE,
                                       "Received and stored the lecture content successfully"),
               storage |-> [present |-> TRUE, value |-> lectureText]]
    ELSE [response |-> DoResponse(200, FALSE,
                                  "LectureMemory DO is active, but no action matched."),
          storage |-> st]

\* the characters of a lecture text: two tokens and a space, or none
Chars(lectureText) ==
    IF lectureText = "" THEN <<>> ELSE <<Token(1, 7), Ws(1), Token(2, 1)>>

\* the texts a summarize request carries: a short one, one of two chunks and
\* one longer than a chunk that is whitespace only
GwTexts ==
    {MkText(<<1>>, 0, 0, 1), MkText(<<11999, 11999>>, 0, 0, 1), MkText(<<>>, 12001, 0, 1)}

\* the number of env.AI.run calls of a pipeline run in which none fails
pipelineCalls(text) ==
    IF IsShort(text) THEN 1
    ELSE LET n == Len(chunkText(text))
         IN  IF NeedsCombine([i \in 1..n |-> AiResponse(i)]) THEN n + 1 ELSE n

IdleGateway ==
    [pc |-> "idle", route |-> "chat", status |-> 0, rlReply |-> "none",
     rateLimitStatus |-> NoStatus, rateLimitBody |-> NoRateLimitBody,
     doPath |-> "", doBody |-> "", doResponse |-> NoDoResponse, text |-> <<>>,
     lmOps |-> 0, aiCalls |-> 0, dbWrites |-> 0, fault |-> FALSE, counted |-> 0]

\* the Response is returned to the end user
respond(g, status) == [g EXCEPT !.pc = "done", !.status = status]

Init ==
    /\ restarts = 0
    /\ pipe = IdlePipe
    /\ gw = IdleGateway
    /\ owned = FALSE
    /\ now = 0
    /\ limits = NoStorage
    /\ rl = [c \in Slots |-> IdleRequest]
    /\ issued = [e \in Endpoints |-> 0]
    /\ incs = [e \in Endpoints |-> 0]
    /\ rawText = [present |-> FALSE, value |-> ""]
    /\ history = NoHistory
    /\ chat = [c \in ChatSlots |-> IdleChat]
    /\ turns = <<>>
    /\ overlap = FALSE

\* Date.now() advances
Tick ==
    /\ \E t \in ClockValues : t > now /\ now' = t
    /\ UNCHANGED <<restarts, rlVars, lmVars, pipeVars, gwVars>>

\* the gateway sends a request to the instance (stub.fetch)
Send(c) ==
    /\ rl[c].pc = "idle"
    /\ rl' = [rl EXCEPT ![c].pc = "queued"]
    /\ UNCHANGED <<now, restarts, limits, issued, incs, lmVars, pipeVars, gwVars>>

\* ghost bookkeeping of a step that takes the storage from st to st2
Ghost(g, endpoint, st, st2, started, kept) ==
    IF ~Configured(endpoint) THEN g
    ELSE IF endpoint \notin DOMAIN LoadLimits(st2) THEN [g EXCEPT ![endpoint] = 0]
    ELSE IF Started(endpoint, st, st2) THEN [g EXCEPT ![endpoint] = started]
    ELSE [g EXCEPT ![endpoint] = kept]

\* /check: handleCheck
handleCheck(c, endpoint) ==
    /\ rl[c].pc = "queued"
    /\ InputGateOpen
    /\ LET r == checkLimit(endpoint, now, limits)
       IN  /\ limits' = r.storage
           /\ rl' = [rl EXCEPT ![c].pc = "done", ![c].op = "check",
                               ![c].endpoint = endpoint, ![c].resp = r.status]
           /\ issued' = Ghost(issued, endpoint, limits, r.storage, 0, issued[endpoint])
           /\ incs' = Ghost(incs, endpoint, limits, r.storage, 0, incs[endpoint])
    /\ UNCHANGED <<now, restarts, lmVars, pipeVars, gwVars>>

\* handleCheckAndIncrement as it would be without if (status.allowed): the
\* increment made whatever the first checkLimit returned
handleCheckAndIncrement_unchecked(c, endpoint) ==
    /\ rl[c].pc = "queued"
    /\ InputGateOpen
    /\ LET r == checkLimit(endpoint, now, limits)
           n == Min(issued[endpoint] + 1, IssuedCap(endpoint))
       IN  /\ limits' = r.storage
           /\ issued' = Ghost(issued, endpoint, limits, r.storage, 1, n)
           /\ incs' = Ghost(incs, endpoint, limits, r.storage, 0, incs[endpoint])
           /\ rl' = [rl EXCEPT ![c].pc = "increment",
                               ![c].op = "check-and-increment",
                               ![c].endpoint = endpoint,
                               ![c].resp = r.status,
                               ![c].pre = WindowOf(limits, endpoint),
                               ![c].t0 = now,
                               ![c].nth = issued'[endpoint]]
    /\ UNCHANGED <<now, restarts, lmVars, pipeVars, gwVars>>
\* /check-and-increment: handleCheckAndIncrement, the first checkLimit
handleCheckAndIncrement(c, endpoint) ==
    /\ rl[c].pc = "queued"
    /\ InputGateOpen
    /\ LET r == checkLimit(endpoint, now, limits)
           n == Min(issued[endpoint] + 1, IssuedCap(endpoint))
       IN  /\ limits' = r.storage
           /\ issued' = Ghost(issued, endpoint, limits, r.storage, 1, n)
           /\ incs' = Ghost(incs, endpoint, limits, r.storage, 0, incs[endpoint])
           /\ rl' = [rl EXCEPT ![c].pc = IF r.status.allowed THEN "increment" ELSE "done",
                               ![c].op = "check-and-increment",
                               ![c].endpoint = endpoint,
                               ![c].resp = r.status,
                               ![c].pre = WindowOf(limits, endpoint),
                               ![c].t0 = now,
                               ![c].nth = issued'[endpoint]]
    /\ UNCHANGED <<now, restarts, lmVars, pipeVars, gwVars>>

\* handleCheckAndIncrement: await this.incrementCounter(endpoint)
Increment(c) ==
    /\ rl[c].pc = "increment"
    /\ LET e == rl[c].endpoint
           st2 == incrementCounter(e, now, limits)
       IN  /\ limits' = st2
           /\ rl' = [rl EXCEPT ![c].pc = "recheck"]
           /\ issued' = Ghost(issued, e, limits, st2, 1, issued[e])
           /\ incs' = Ghost(incs, e, limits, st2, 1, incs[e] + 1)
    /\ UNCHANGED <<now, restarts, lmVars, pipeVars, gwVars>>

\* handleCheckAndIncrement: updatedStatus = await this.checkLimit(endpoint)
Recheck(c) ==
    /\ rl[c].pc = "recheck"
    /\ LET e == rl[c].endpoint
           r == checkLimit(e, now, limits)
       IN  /\ limits' = r.storage
           /\ rl' = [rl EXCEPT ![c].pc = "done", ![c].resp = r.status]
           /\ issued' = Ghost(issued, e, limits, r.storage, 0, issued[e])
           /\ incs' = Ghost(incs, e, limits, r.storage, 0, incs[e])
    /\ UNCHANGED <<now, restarts, lmVars, pipeVars, gwVars>>

\* /reset: handleReset
handleReset(c, endpoint) ==
    /\ rl[c].pc = "queued"
    /\ InputGateOpen
    /\ limits' = resetEndpoint(endpoint, limits)
    /\ rl' = [rl EXCEPT ![c].pc = "done", ![c].op = "reset", ![c].endpoint = endpoint]
    /\ issued' = Ghost(issued, endpoint, limits, limits', 0, issued[endpoint])
    /\ incs' = Ghost(incs, endpoint, limits, limits', 0, incs[endpoint])
    /\ UNCHANGED <<now, restarts, lmVars, pipeVars, gwVars>>

\* /reset-all: handleResetAll
handleResetAll(c) ==
    /\ rl[c].pc = "queued"
    /\ InputGateOpen
    /\ limits' = NoStorage
    /\ rl' = [rl EXCEPT ![c].pc = "done", ![c].op = "reset-all"]
    /\ issued' = [e \in Endpoints |-> 0]
    /\ incs' = [e \in Endpoints |-> 0]
    /\ UNCHANGED <<now, restarts, lmVars, pipeVars, gwVars>>

\* the response reaches the gateway
Return(c) ==
    /\ rl[c].pc = "done"
    /\ rl' = [rl EXCEPT ![c] = IdleRequest]
    /\ UNCHANGED <<now, restarts, limits, issued, incs, lmVars, pipeVars, gwVars>>

NextRL ==
    \/ Tick
    \/ \E c \in Slots : Send(c)
    \/ \E c \in Slots, e \in Endpoints : handleCheck(c, e)
    \/ \E c \in Slots, e \in Endpoints : handleCheckAndIncrement(c, e)
    \/ \E c \in Slots : Increment(c)
    \/ \E c \in Slots : Recheck(c)
    \/ \E c \in Slots, e \in Endpoints : handleReset(c, e)
    \/ \E c \in Slots : handleResetAll(c)
    \/ \E c \in Slots : Return(c)

SpecRL == Init /\ [][NextRL]_vars

\* Date.now() advances during a LectureMemory run
TickLM ==
    /\ now < MaxChatClock
    /\ now' = now + 1
    /\ UNCHANGED <<restarts, lmVars, rlVars, pipeVars, gwVars>>

\* the gateway forwards a chat request to the instance (stub.fetch)
SendChat(c) ==
    /\ chat[c].pc = "idle"
    /\ \A d \in ChatSlots : d < c => chat[d].pc # "idle"
    /\ chat' = [chat EXCEPT ![c].pc = "queued"]
    /\ UNCHANGED <<now, restarts, rawText, history, turns, overlap, rlVars, pipeVars, gwVars>>

\* /chat: read the history, push the user message, put, and call the model
ChatBegin(c, message) ==
    /\ chat[c].pc = "queued"
    /\ LET userMessage == ChatMessage("user", message, now)
           local == Append(LoadHistory(history), userMessage)
       IN  /\ history' = PutHistory(history, local)
           /\ chat' = [chat EXCEPT ![c].pc = "ai", ![c].local = local,
                                   ![c].input = aiMessages(local),
                                   ![c].turn = Len(turns) + 1]
           /\ turns' = Append(turns, [user |-> userMessage, outcome |-> "pending",
                                      assistant |-> NoMessage])
    /\ overlap' = (overlap \/ \E d \in ChatSlots : d # c /\ Suspended(d))
    /\ UNCHANGED <<now, restarts, rawText, rlVars, pipeVars, gwVars>>

\* AiSucceed as it would be if the gateway's timeout cancelled the handler:
\* a call that timed out ends at the model call and writes nothing more
AiSucceed_cancelled(c, reply) ==
    /\ Suspended(c)
    /\ LET assistantMessage == ChatMessage("assistant", reply, now)
           local == Append(chat[c].local, assistantMessage)
       IN  IF chat[c].timedOut
           THEN /\ history' = history
                /\ chat' = [chat EXCEPT ![c].pc = "done", ![c].local = <<>>,
                                        ![c].input = <<>>]
                /\ turns' = [turns EXCEPT ![chat[c].turn].outcome = "fail"]
           ELSE /\ history' = PutHistory(history, local)
                /\ chat' = [chat EXCEPT ![c].pc = "done", ![c].local = <<>>,
                                        ![c].input = <<>>,
                                        ![c].status = 200, ![c].response = reply]
                /\ turns' = [turns EXCEPT ![chat[c].turn].outcome = "ok",
                                          ![chat[c].turn].assistant = assistantMessage]
    /\ UNCHANGED <<now, restarts, rawText, overlap, rlVars, pipeVars, gwVars>>
\* /chat: the model answered; push the assistant message, put, respond 200
AiSucceed(c, reply) ==
    /\ Suspended(c)
    /\ LET assistantMessage == ChatMessage("assistant", reply, now)
           local == Append(chat[c].local, assistantMessage)
       IN  /\ history' = PutHistory(history, local)
           /\ chat' = [chat EXCEPT ![c].pc = "done", ![c].local = <<>>,
                                   ![c].input = <<>>,
                                   ![c].status = 200, ![c].response = reply]
           /\ turns' = [turns EXCEPT ![chat[c].turn].outcome = "ok",
                                     ![chat[c].turn].assistant = assistantMessage]
    /\ UNCHANGED <<now, restarts, rawText, overlap, rlVars, pipeVars, gwVars>>

\* /chat: this.env.AI.run threw; the catch block responds 500
AiFail(c) ==
    /\ Suspended(c)
    /\ chat' = [chat EXCEPT ![c].pc = "done", ![c].local = <<>>,
                            ![c].input = <<>>, ![c].status = 500]
    /\ turns' = [turns EXCEPT ![chat[c].turn].outcome = "fail"]
    /\ UNCHANGED <<now, restarts, rawText, history, overlap, rlVars, pipeVars, gwVars>>

\* index.ts: the gateway's 30 s timer wins the race; the handler goes on
GatewayTimeout(c) ==
    /\ Suspended(c)
    /\ ~chat[c].timedOut
    /\ chat' = [chat EXCEPT ![c].timedOut = TRUE]
    /\ UNCHANGED <<now, restarts, rawText, history, turns, overlap, rlVars, pipeVars, gwVars>>

\* StoreLecture as it would be if storing a lecture text also started the
\* conversation of the key afresh
StoreLecture_clearsHistory(lectureText) ==
    /\ IF lectureStatus(lectureText) = 400
       THEN UNCHANGED <<rawText, history>>
       ELSE /\ rawText' = [present |-> TRUE, value |-> lectureText]
            /\ history' = NoHistory
    /\ UNCHANGED <<now, restarts, chat, turns, overlap, rlVars, pipeVars, gwVars>>
\* /lecture: reject an empty lectureText, else put it
StoreLecture(lectureText) ==
    /\ IF lectureStatus(lectureText) = 400
       THEN UNCHANGED rawText
       ELSE rawText' = [present |-> TRUE, value |-> lectureText]
    /\ UNCHANGED <<now, restarts, history, chat, turns, overlap, rlVars, pipeVars, gwVars>>

NextLM ==
    \/ TickLM
    \/ \E c \in ChatSlots : SendChat(c)
    \/ \E c \in ChatSlots, m \in Messages : ChatBegin(c, m)
    \/ \E c \in ChatSlots, r \in Replies : AiSucceed(c, r)
    \/ \E c \in ChatSlots : AiFail(c)
    \/ \E c \in ChatSlots : GatewayTimeout(c)
    \/ \E t \in LectureTexts : StoreLecture(t)

SpecLM == Init /\ [][NextLM]_vars

\* the handler reaches the pipeline with the text to work on: a short
\* document goes to one direct call, a long one is chunked
PipelineStart(mode, text) ==
    /\ pipe.pc = "idle"
    /\ pipe' = IF IsShort(text)
               THEN [IdlePipe EXCEPT !.pc = "direct", !.mode = mode, !.text = text]
               ELSE afterLoop([IdlePipe EXCEPT !.pc = "chunk", !.mode = mode,
                                               !.text = text, !.chunks = chunkText(text)])
    /\ UNCHANGED <<now, restarts, rlVars, lmVars, gwVars>>

\* pipelineError as it would be if the failure were swallowed and the call
\* made again
pipelineError_retry(p) == p
\* the catch block of the endpoint: respond 500
pipelineError(p) == [p EXCEPT !.pc = "done", !.status = 500]

\* short document: one env.AI.run on the whole text
DirectCall(ok) ==
    /\ pipe.pc = "direct"
    /\ LET p == [pipe EXCEPT !.calls = Append(@, AiCall("direct", 1, 1, pipe.text, <<>>))]
       IN  pipe' = IF ok
                   THEN [p EXCEPT !.pc = "done", !.status = 200,
                                  !.result = AiResponse(Len(p.calls))]
                   ELSE pipelineError(p)
    /\ UNCHANGED <<now, restarts, rlVars, lmVars, gwVars>>

\* long document: env.AI.run on chunks[i], labelled part i + 1 of chunks.length
ChunkCall(ok) ==
    /\ pipe.pc = "chunk"
    /\ LET i == Len(pipe.chunkSummaries) + 1
           p == [pipe EXCEPT !.calls = Append(@, AiCall("part", i, Len(pipe.chunks),
                                                        pipe.chunks[i], <<>>))]
       IN  pipe' = IF ok
                   THEN afterLoop([p EXCEPT !.chunkSummaries =
                                                Append(@, AiResponse(Len(p.calls)))])
                   ELSE pipelineError(p)
    /\ UNCHANGED <<now, restarts, rlVars, lmVars, gwVars>>

\* long document: env.AI.run on the section summaries
CombineCall(ok) ==
    /\ pipe.pc = "combine"
    /\ LET p == [pipe EXCEPT !.calls = Append(@, AiCall("combine", 0, 0, <<>>,
                                                        Sections(pipe.chunkSummaries)))]
       IN  pipe' = IF ok
                   THEN [p EXCEPT !.pc = "done", !.status = 200,
                                  !.result = AiResponse(Len(p.calls))]
                   ELSE pipelineError(p)
    /\ UNCHANGED <<now, restarts, rlVars, lmVars, gwVars>>

NextPipe ==
    \/ pipe.pc = "idle" /\ \E mode \in Modes, text \in Texts : PipelineStart(mode, text)
    \/ \E ok \in BOOLEAN : DirectCall(ok)
    \/ \E ok \in BOOLEAN : ChunkCall(ok)
    \/ \E ok \in BOOLEAN : CombineCall(ok)

SpecPipe == Init /\ [][NextPipe]_vars

\* /api/extract-concepts on the text a /api/summarize request was answered for:
\* rawLectureText.length <= MAX_CHARS_PER_CHUNK, the same chunking loop
ExtractSameText ==
    /\ pipe.pc = "done"
    /\ pipe.mode = "summarize"
    /\ LET first == [has |-> TRUE, chunks |-> pipe.chunks, calls |-> pipe.calls,
                     status |-> pipe.status]
           start == [IdlePipe EXCEPT !.mode = "extract", !.text = pipe.text,
                                     !.first = first]
       IN  pipe' = IF IsShort(pipe.text)
                   THEN [start EXCEPT !.pc = "direct"]
                   ELSE afterLoop([start EXCEPT !.pc = "chunk",
                                                !.chunks = chunkText(pipe.text)])
    /\ UNCHANGED <<now, restarts, rlVars, lmVars, gwVars>>

\* a summarize request and then an extract request on the same text
NextModes ==
    \/ pipe.pc = "idle" /\ \E text \in Texts : PipelineStart("summarize", text)
    \/ \E ok \in BOOLEAN : DirectCall(ok)
    \/ \E ok \in BOOLEAN : ChunkCall(ok)
    \/ \E ok \in BOOLEAN : CombineCall(ok)
    \/ ExtractSameText

SpecModes == Init /\ [][NextModes]_vars

\* a request arrives at the gateway; the model follows one lecture key, so an
\* upload, whose key is a new crypto.randomUUID(), arrives while it is unused
Receive(route) ==
    /\ gw.pc \in {"idle", "done"}
    /\ route = "upload" => ~rawText.present /\ ~owned
    /\ gw' = [IdleGateway EXCEPT !.pc = "session", !.route = route]
    /\ UNCHANGED <<now, restarts, owned, rlVars, lmVars, pipeVars>>

\* const userId = await validateSession(...); if (!userId) 401
ValidateSession(valid) ==
    /\ gw.pc = "session"
    /\ gw' = IF valid THEN [gw EXCEPT !.pc = "ratelimit"] ELSE respond(gw, 401)
    /\ UNCHANGED <<now, restarts, owned, rlVars, lmVars, pipeVars>>

\* const rateLimitStatus = await checkRateLimit(...);
\* if (!rateLimitStatus.allowed) return createRateLimitResponse(rateLimitStatus)
RateLimit(reply) ==
    /\ gw.pc = "ratelimit"
    /\ LET rateLimitStatus == checkRateLimit(reply, now)
           g == [gw EXCEPT !.rlReply = reply.kind, !.rateLimitStatus = rateLimitStatus,
                           !.counted = reply.counted]
           denied == createRateLimitResponse(rateLimitStatus)
       IN  gw' = IF ~rateLimitStatus.allowed
                 THEN [respond(g, denied.status) EXCEPT !.rateLimitBody = denied.body]
                 ELSE [g EXCEPT !.pc = "validate"]
    /\ UNCHANGED <<now, restarts, owned, rlVars, lmVars, pipeVars>>

\* checkRateLimit: await stub.fetch(".../check-and-increment") on a promise
\* that never settles: the RateLimiter never responds, nothing is thrown into
\* the catch block and no timer runs beside the call
RateLimiterHangs ==
    /\ gw.pc = "ratelimit"
    /\ gw' = [gw EXCEPT !.pc = "ratelimitWaiting", !.rlReply = "hung"]
    /\ UNCHANGED <<now, restarts, owned, rlVars, lmVars, pipeVars>>

\* the checks of the request: a missing lecture id, text or file gives 400;
\* a summarize request carries its text
Validate(valid, text) ==
    /\ gw.pc = "validate"
    /\ gw' = IF ~valid THEN respond(gw, 400)
             ELSE IF gw.route = "upload" THEN [gw EXCEPT !.pc = "actor"]
             ELSE [gw EXCEPT !.pc = "ownership",
                             !.text = IF gw.route = "summarize" THEN text ELSE <<>>]
    /\ UNCHANGED <<now, restarts, owned, rlVars, lmVars, pipeVars>>

\* SELECT user_id FROM user_lectures WHERE ...; if (!ownership) 403
Ownership ==
    /\ gw.pc = "ownership"
    /\ gw' = IF ~owned THEN respond(gw, 403)
             ELSE [gw EXCEPT !.pc = IF gw.route = "summarize" THEN "pipeline" ELSE "actor"]
    /\ UNCHANGED <<now, restarts, owned, rlVars, lmVars, pipeVars>>

\* /api/chat/:lectureId: the request goes to the actor's /chat, run here from
\* its start to the gateway's response: the actor answered (ok), its model call
\* failed (aiFail), the gateway's 30 s timer fired while the actor was at the
\* model call (timeout), or the fetch threw before the actor ran (threw)
ChatDispatch(outcome) ==
    /\ gw.pc = "actor"
    /\ gw.route = "chat"
    /\ Len(LoadHistory(history)) < 2 * MaxChats
    /\ LET userMessage == ChatMessage("user", "q1", now)
           assistantMessage == ChatMessage("assistant", "a1", now)
           local == Append(LoadHistory(history), userMessage)
           g == [gw EXCEPT !.doPath = "/chat", !.lmOps = @ + 1,
                           !.aiCalls = IF outcome = "threw" THEN @ ELSE @ + 1,
                           !.fault = outcome # "ok"]
       IN  /\ history' = IF outcome = "threw" THEN history
                         ELSE IF outcome = "ok"
                              THEN PutHistory(history, Append(local, assistantMessage))
                              ELSE PutHistory(history, local)
           /\ gw' = respond(g, IF outcome = "ok" THEN 200 ELSE 500)
    /\ UNCHANGED <<now, restarts, owned, rawText, chat, turns, overlap, rlVars, pipeVars>>

\* /api/chat/:lectureId/<path>: the request is forwarded to the actor with the
\* rest of the path and the actor's Response is returned as it is; 500 when the
\* fetch throws
ForwardToActor(path, lectureText, outcome) ==
    /\ gw.pc = "actor"
    /\ gw.route = "chat"
    /\ path # "/lecture" => lectureText = ""
    /\ LET r == lectureMemoryFetch(path, lectureText, rawText, outcome = "ok")
           g == [gw EXCEPT !.doPath = path, !.doBody = lectureText, !.lmOps = @ + 1]
       IN  IF outcome # "threw"
           THEN /\ rawText' = r.storage
                /\ gw' = [respond(g, r.response.status)
                            EXCEPT !.doResponse = r.response,
                                   !.fault = r.response.status = 500]
           ELSE /\ rawText' = rawText
                /\ gw' = [respond(g, 500) EXCEPT !.fault = TRUE]
    /\ UNCHANGED <<now, restarts, owned, history, chat, turns, overlap, rlVars, pipeVars>>

\* /api/upload: stub.fetch(".../lecture") with the text of the file;
\* if (!doResponse.ok) 500; the catch block gives 500 when the fetch throws
StoreUpload(lectureText, outcome) ==
    /\ gw.pc = "actor"
    /\ gw.route = "upload"
    /\ lectureText # ""
    /\ LET r == lectureMemoryFetch("/lecture", lectureText, rawText, outcome = "ok")
           g == [gw EXCEPT !.doPath = "/lecture", !.doBody = lectureText, !.lmOps = @ + 1,
                           !.fault = r.response.status = 500]
       IN  IF outcome # "threw"
           THEN /\ rawText' = r.storage
                /\ gw' = IF Ok(r.response)
                          THEN [g EXCEPT !.pc = "insert", !.doResponse = r.response]
                          ELSE [respond(g, 500) EXCEPT !.doResponse = r.response]
           ELSE /\ rawText' = rawText
                /\ gw' = [respond(g, 500) EXCEPT !.fault = TRUE]
    /\ UNCHANGED <<now, restarts, owned, history, chat, turns, overlap, rlVars, pipeVars>>

\* /api/upload: INSERT INTO user_lectures ...; 200, or 500 from the catch block
InsertOwnership(ok) ==
    /\ gw.pc = "insert"
    /\ owned' = (owned \/ ok)
    /\ gw' = IF ok THEN respond([gw EXCEPT !.dbWrites = @ + 1], 200)
             ELSE [respond(gw, 500) EXCEPT !.fault = TRUE]
    /\ UNCHANGED <<now, restarts, rlVars, lmVars, pipeVars>>

\* /api/extract-concepts: stub.fetch(".../raw-lecture-text");
\* if (!rawLectureResponse.ok) 500; await rawLectureResponse.json(), which
\* throws into the catch block (500) on a body that is not JSON;
\* if (!rawLectureText) 404; else the pipeline runs on the text
FetchRawText(reached) ==
    /\ gw.pc = "actor"
    /\ gw.route = "extract"
    /\ LET r == lectureMemoryFetch("/raw-lecture-text", "", rawText, TRUE)
           g == [gw EXCEPT !.doPath = "/raw-lecture-text", !.lmOps = @ + 1]
           h == [g EXCEPT !.doResponse = r.response]
       IN  IF reached
           THEN /\ rawText' = r.storage
                /\ gw' = IF ~Ok(r.response) THEN respond(h, 500)
                          ELSE IF ~r.response.json THEN respond(h, 500)
                          ELSE IF r.response.rawText = "" THEN respond(h, 404)
                          ELSE [h EXCEPT !.pc = "pipeline",
                                         !.text = Chars(r.response.rawText)]
           ELSE /\ rawText' = rawText
                /\ gw' = [respond(g, 500) EXCEPT !.fault = TRUE]
    /\ UNCHANGED <<now, restarts, owned, history, chat, turns, overlap, rlVars, pipeVars>>

\* await stub.fetch(...) on a promise that never settles: the actor never
\* responds and its durable state is left as it was
ActorHangs ==
    /\ gw.pc = "actor"
    /\ gw' = [gw EXCEPT !.pc = "waiting", !.lmOps = @ + 1,
                        !.doPath = IF gw.route = "upload" THEN "/lecture"
                                   ELSE IF gw.route = "extract" THEN "/raw-lecture-text"
                                   ELSE "/chat"]
    /\ UNCHANGED <<now, restarts, owned, rlVars, lmVars, pipeVars>>

\* /api/chat/:lectureId: Promise.race([stub.fetch(newRequest), timeoutPromise]),
\* whose timer rejects after 30 s into the catch block (500); the dispatches
\* of /api/upload and /api/extract-concepts await stub.fetch alone
DispatchTimeout ==
    /\ gw.pc = "waiting"
    /\ gw.route = "chat"
    /\ gw' = [respond(gw, 500) EXCEPT !.fault = TRUE]
    /\ UNCHANGED <<now, restarts, owned, rlVars, lmVars, pipeVars>>

\* the pipeline of the request run to its end: every env.AI.run succeeds
\* (failAt = 0) and the result is returned with 200, or the failAt-th call
\* throws into the catch block (500)
RunPipeline(failAt) ==
    /\ gw.pc = "pipeline"
    /\ gw' = IF failAt = 0
             THEN respond([gw EXCEPT !.aiCalls = pipelineCalls(gw.text)], 200)
             ELSE [respond([gw EXCEPT !.aiCalls = failAt], 500) EXCEPT !.fault = TRUE]
    /\ UNCHANGED <<now, restarts, owned, rlVars, lmVars, pipeVars>>

NextGW ==
    \/ \E route \in Routes : Receive(route)
    \/ \E valid \in BOOLEAN : ValidateSession(valid)
    \/ \E reply \in RlReplies(EndpointOf(gw.route), now) : RateLimit(reply)
    \/ \E valid \in BOOLEAN, text \in GwTexts : Validate(valid, text)
    \/ Ownership
    \/ \E outcome \in {"ok", "aiFail", "timeout", "threw"} : ChatDispatch(outcome)
    \/ \E path \in ForwardPaths, lectureText \in LectureTexts, outcome \in ActorOutcomes :
           ForwardToActor(path, lectureText, outcome)
    \/ \E lectureText \in LectureTexts, outcome \in ActorOutcomes :
           StoreUpload(lectureText, outcome)
    \/ \E ok \in BOOLEAN : InsertOwnership(ok)
    \/ \E reached \in BOOLEAN : FetchRawText(reached)
    \/ \E failAt \in 0..pipelineCalls(gw.text) : RunPipeline(failAt)
    \/ ActorHangs
    \/ DispatchTimeout
    \/ RateLimiterHangs

SpecGW == Init /\ [][NextGW]_vars

\* the runtime runs every handler and timer callback that is ready: a step of
\* the gateway that stays possible is eventually taken
SpecGWFair == SpecGW /\ WF_vars(NextGW)

----------------------------------------------------------------------------
(* Faults of an instance: eviction from memory, storage operations that throw *)

\* AfterRestart as it would be if the instance kept what it stores in a field
\* of the object, which a new instance starts without
AfterRestart_volatile(st, empty) == empty
\* constructor(state, env) { this.state = state; this.env = env }: the new
\* instance is given the DurableObjectState of the key and reads each value
\* with this.state.storage.get, as the last put or delete left it
AfterRestart(st, empty) == st

\* the runtime evicts the instances while none of their handlers is running
\* and constructs them again for the next request
Restart ==
    /\ restarts < MaxRestarts
    /\ \A c \in Slots : ~InHandler(c)
    /\ \A c \in ChatSlots : ~Suspended(c)
    /\ restarts' = restarts + 1
    /\ limits' = AfterRestart(limits, NoStorage)
    /\ rawText' = AfterRestart(rawText, [present |-> FALSE, value |-> ""])
    /\ history' = AfterRestart(history, NoHistory)
    /\ UNCHANGED <<now, rl, issued, incs, chat, turns, overlap, pipeVars, gwVars>>

\* StorageThrows as it would be without the try and catch of fetch around the
\* handlers, the request ending as one that was served
StorageThrows_swallowed(c, op, endpoint) ==
    /\ \/ rl[c].pc = "queued" /\ InputGateOpen
       \/ rl[c].pc \in {"increment", "recheck"} /\ op = rl[c].op /\ endpoint = rl[c].endpoint
    /\ op \in {"check", "check-and-increment"} => Configured(endpoint)
    /\ rl' = [rl EXCEPT ![c].pc = "done", ![c].op = op, ![c].endpoint = endpoint,
                        ![c].threw = TRUE]
    /\ issued' = IF rl[c].pc = "increment" THEN [issued EXCEPT ![endpoint] = rl[c].nth - 1]
                 ELSE issued
    /\ UNCHANGED <<now, restarts, limits, incs, lmVars, pipeVars, gwVars>>
\* RateLimiter.fetch: a storage operation of the handler (get, put or delete)
\* throws, at the start of the handler or at its increment or re-check; the
\* write is not made and the catch block of fetch responds 500 with an error
\* body. checkLimit and incrementCounter return before any storage operation
\* for an endpoint without a policy. A call that fails at its increment is
\* not counted among the calls of the window
StorageThrows(c, op, endpoint) ==
    /\ \/ rl[c].pc = "queued" /\ InputGateOpen
       \/ rl[c].pc \in {"increment", "recheck"} /\ op = rl[c].op /\ endpoint = rl[c].endpoint
    /\ op \in {"check", "check-and-increment"} => Configured(endpoint)
    /\ rl' = [rl EXCEPT ![c] = [IdleRequest EXCEPT !.pc = "done", !.op = op,
                                                   !.endpoint = endpoint,
                                                   !.threw = TRUE, !.caught = TRUE]]
    /\ issued' = IF rl[c].pc = "increment" THEN [issued EXCEPT ![endpoint] = rl[c].nth - 1]
                 ELSE issued
    /\ UNCHANGED <<now, restarts, limits, incs, lmVars, pipeVars, gwVars>>

\* /chat: a storage operation throws: the get or the first put, before the
\* model is called, or the put that follows the model's answer; the write is
\* not made and the catch block responds 500
ChatStorageThrows(c) ==
    /\ chat[c].pc \in {"queued", "ai"}
    /\ chat' = [chat EXCEPT ![c].pc = "done", ![c].local = <<>>, ![c].input = <<>>,
                            ![c].status = 500, ![c].threw = TRUE]
    /\ turns' = IF chat[c].pc = "ai"
                THEN [turns EXCEPT ![chat[c].turn].outcome = "fail"]
                ELSE turns
    /\ UNCHANGED <<now, restarts, rawText, history, overlap, rlVars, pipeVars, gwVars>>

\* nothing was sent to the RateLimiter instance, or its storage was deleted
RateLimiterUnused == limits = NoStorage /\ \A c \in Slots : rl[c] = IdleRequest
\* nothing was sent to the LectureMemory instance
LectureMemoryUnused ==
    /\ ~rawText.present
    /\ ~history.present
    /\ \A c \in ChatSlots : chat[c] = IdleChat

\* a run follows one instance, the RateLimiter of a key or the LectureMemory of
\* a lecture: requests reach it one at a time, with evictions between them
NextFaults ==
    \/ LectureMemoryUnused /\ Tick
    \/ LectureMemoryUnused /\ Send(1)
    \/ LectureMemoryUnused /\ \E e \in Endpoints : handleCheck(1, e)
    \/ LectureMemoryUnused /\ \E e \in Endpoints : handleCheckAndIncrement(1, e)
    \/ LectureMemoryUnused /\ Increment(1)
    \/ LectureMemoryUnused /\ Recheck(1)
    \/ LectureMemoryUnused /\ \E e \in Endpoints : handleReset(1, e)
    \/ LectureMemoryUnused /\ handleResetAll(1)
    \/ LectureMemoryUnused /\ Return(1)
    \/ RateLimiterUnused /\ \E c \in ChatSlots : SendChat(c)
    \/ /\ RateLimiterUnused
       /\ \A d \in ChatSlots : ~Suspended(d)
       /\ \E c \in ChatSlots, m \in Messages : ChatBegin(c, m)
    \/ RateLimiterUnused /\ \E c \in ChatSlots, r \in Replies : AiSucceed(c, r)
    \/ RateLimiterUnused /\ \E c \in ChatSlots : AiFail(c)
    \/ RateLimiterUnused /\ \E t \in LectureTexts : StoreLecture(t)
    \/ Restart
    \/ LectureMemoryUnused /\ \E op \in Ops, e \in Endpoints : StorageThrows(1, op, e)
    \/ RateLimiterUnused /\ \E c \in ChatSlots : ChatStorageThrows(c)

SpecFaults == Init /\ [][NextFaults]_vars

----------------------------------------------------------------------------
(* Claims about the RateLimiter, checked under SpecRL *)

PolicyMax(e) == RATE_LIMIT_CONFIG[e].maxRequests
PolicyMs(e) == RATE_LIMIT_CONFIG[e].windowSeconds * MsPerSecond

\* a check-and-increment request on a configured endpoint has its response
Answered(c) ==
    /\ rl[c].pc = "done"
    /\ rl[c].op = "check-and-increment"
    /\ Configured(rl[c].endpoint)

\* the start of the window the request was counted in at its first check
WindowStartAt(c) ==
    IF rl[c].pre.has /\ rl[c].t0 < rl[c].pre.windowStart + PolicyMs(rl[c].endpoint)
    THEN rl[c].pre.windowStart
    ELSE rl[c].t0

\* C1: the n-th check-and-increment call of a window, n <= maxRequests, that
\* completes inside the window returns allowed=true and remaining = maxRequests - n
C1_FirstNAllowed ==
    \A c \in Slots :
        ( /\ Answered(c)
          /\ rl[c].nth <= PolicyMax(rl[c].endpoint)
          /\ now < WindowStartAt(c) + PolicyMs(rl[c].endpoint) )
        => /\ rl[c].resp.allowed
           /\ rl[c].resp.remaining = PolicyMax(rl[c].endpoint) - rl[c].nth

\* C2: the check/increment/re-check sequences of requests in flight at once
\* never interleave (at most one handler is between its storage operations),
\* every increment applied to the current window is in the stored count, and
\* the stored count never exceeds maxRequests
C2_Serialized ==
    /\ Cardinality({c \in Slots : InHandler(c)}) <= 1
    /\ \A e \in Endpoints :
          e \in DOMAIN LoadLimits(limits) =>
             /\ LoadLimits(limits)[e].count = incs[e]
             /\ LoadLimits(limits)[e].count <= PolicyMax(e)

\* C2 witness: one request is between increment and re-check with the window
\* full while another request to the same instance is in flight
C2_Witness ==
    \E c, d \in Slots :
        /\ c # d
        /\ rl[c].pc = "recheck"
        /\ rl[d].pc = "queued"
        /\ rl[c].endpoint \in DOMAIN LoadLimits(limits)
        /\ LoadLimits(limits)[rl[c].endpoint].count = PolicyMax(rl[c].endpoint)

\* C4: a check-and-increment call that comes after maxRequests calls of the
\* window, before the window ends, returns allowed=false, remaining=0,
\* resetAt = windowStart + W*1000 and retryAfter = ceil((resetAt - now)/1000),
\* a value in 0..W
C4_DeniedStatus ==
    \A c \in Slots :
        ( Answered(c) /\ rl[c].nth > PolicyMax(rl[c].endpoint) )
        => LET e == rl[c].endpoint
               r == rl[c].resp
           IN  /\ rl[c].pre.has
               /\ rl[c].t0 < rl[c].pre.windowStart + PolicyMs(e)
               /\ ~r.allowed
               /\ r.remaining = 0
               /\ r.resetAt = rl[c].pre.windowStart + PolicyMs(e)
               /\ r.retryAfter * MsPerSecond >= r.resetAt - rl[c].t0
               /\ (r.retryAfter - 1) * MsPerSecond < r.resetAt - rl[c].t0
               /\ r.retryAfter \in 0..RATE_LIMIT_CONFIG[e].windowSeconds

\* C4 witness: a denied call one millisecond before the window ends, told to
\* retry after one second
C4_Witness ==
    \E c \in Slots :
        /\ Answered(c)
        /\ rl[c].nth > PolicyMax(rl[c].endpoint)
        /\ rl[c].resp.resetAt - rl[c].t0 = 1
        /\ rl[c].resp.retryAfter = 1

\* C5: a check-and-increment call made at or after the end of the stored
\* window, whatever its count, returns allowed=true with remaining =
\* maxRequests - 1 and leaves a stored window with count = 1 that starts at
\* the time of the call
C5_WindowReset ==
    \A c \in Slots :
        ( /\ Answered(c)
          /\ rl[c].pre.has
          /\ rl[c].t0 >= rl[c].pre.windowStart + PolicyMs(rl[c].endpoint)
          /\ now < rl[c].t0 + PolicyMs(rl[c].endpoint) )
        => LET e == rl[c].endpoint
           IN  /\ rl[c].resp.allowed
               /\ rl[c].resp.remaining = PolicyMax(e) - 1
               /\ WindowOf(limits, e) = [has |-> TRUE, count |-> 1, windowStart |-> rl[c].t0]

\* C5 witness: the call was made at the very instant a full window ended
C5_Witness ==
    \E c \in Slots :
        /\ Answered(c)
        /\ rl[c].pre.has
        /\ rl[c].pre.count = PolicyMax(rl[c].endpoint)
        /\ rl[c].t0 = rl[c].pre.windowStart + PolicyMs(rl[c].endpoint)
        /\ rl[c].resp.allowed
        /\ WindowOf(limits, rl[c].endpoint).count = 1

\* C6: a check-and-increment call answered allowed=false leaves the stored
\* window of its endpoint as it was before the call
C6_DeniedUnchanged ==
    \A c \in Slots :
        ( Answered(c) /\ ~rl[c].resp.allowed )
        => WindowOf(limits, rl[c].endpoint) = rl[c].pre

\* C7: a Check call leaves the stored endpoint-to-window mapping as it was
C7_CheckReadOnly ==
    [][ \A c \in Slots :
           ( rl[c].pc = "queued" /\ rl'[c].pc = "done" /\ rl'[c].op = "check" )
           => limits' = limits ]_vars

\* C12: a Check or CheckAndIncrement call for an endpoint that has no policy
\* is answered allowed=true with limit and remaining 999999 whatever was called
\* before, and no step of it touches the storage: the stored mapping is left
\* as it was and never holds a window for that endpoint
C12_UnconfiguredSentinel ==
    [][ \A c \in Slots :
          ( /\ rl'[c] # rl[c]
            /\ rl'[c].pc \in {"increment", "recheck", "done"}
            /\ rl'[c].op \in {"check", "check-and-increment"}
            /\ ~Configured(rl'[c].endpoint) )
          => /\ limits' = limits
             /\ rl'[c].endpoint \notin DOMAIN LoadLimits(limits')
             /\ rl'[c].resp.allowed
             /\ rl'[c].resp.limit = 999999
             /\ rl'[c].resp.remaining = 999999
             /\ rl'[c].resp.retryAfter = 0
      ]_vars

\* C12 witness: a check-and-increment call for an endpoint without a policy
\* has been answered with the sentinel while the storage holds a counted
\* window of a configured endpoint and none for the unconfigured one
C12_Witness ==
    \E c \in Slots :
        /\ rl[c].pc = "done"
        /\ rl[c].op = "check-and-increment"
        /\ ~Configured(rl[c].endpoint)
        /\ rl[c].resp.allowed
        /\ rl[c].resp.remaining = 999999
        /\ rl[c].endpoint \notin DOMAIN LoadLimits(limits)
        /\ \E e \in DOMAIN LoadLimits(limits) : LoadLimits(limits)[e].count >= 1

\* the window stored for the endpoint, with its duration, or none
StoredWindow(st, endpoint) ==
    IF endpoint \in DOMAIN LoadLimits(st) THEN <<LoadLimits(st)[endpoint]>> ELSE <<>>

C28_WindowStartMonotone ==
    [][ /\ now' >= now
        /\ \A e \in Endpoints :
              LET w == WindowOf(limits, e)
                  w2 == WindowOf(limits', e)
              IN  /\ w.has => w.windowStart <= now
                  /\ ( w.has /\ w2.has ) => w2.windowStart >= w.windowStart
                  /\ ( w2.has /\ ( ~w.has \/ w2.windowStart # w.windowStart ) )
                     => w2.windowStart = now'
      ]_vars

\* C28 witness: a check-and-increment found a window of its endpoint stored
\* with requests counted and left one that starts later, at the instant of
\* the call
C28_Witness ==
    \E c \in Slots :
        /\ rl[c].pc = "done"
        /\ rl[c].op = "check-and-increment"
        /\ rl[c].pre.has
        /\ rl[c].pre.count >= 1
        /\ WindowOf(limits, rl[c].endpoint).has
        /\ WindowOf(limits, rl[c].endpoint).windowStart > rl[c].pre.windowStart
        /\ WindowOf(limits, rl[c].endpoint).windowStart = now

\* C32: a reset removes the stored window of its endpoint and leaves every
\* other stored window as it was; a reset-all leaves no stored window; a
\* check-and-increment that finds no window of its endpoint stored, after a
\* reset as on an endpoint never used, and ends before the window it starts
\* does, is answered allowed with remaining = maxRequests - 1 and leaves a
\* window with count 1 that starts at the time of the call
C32_ResetForgets ==
    [][ \A c \in Slots :
          /\ ( rl[c].pc = "queued" /\ rl'[c].pc = "done" /\ rl'[c].op = "reset" )
             => LoadLimits(limits')
                  = [e \in (DOMAIN LoadLimits(limits)) \ {rl'[c].endpoint}
                        |-> LoadLimits(limits)[e]]
          /\ ( rl[c].pc = "queued" /\ rl'[c].pc = "done" /\ rl'[c].op = "reset-all" )
             => LoadLimits(limits') = NoLimits
          /\ ( /\ rl[c].pc = "recheck" /\ rl'[c].pc = "done"
               /\ Configured(rl[c].endpoint)
               /\ ~rl[c].pre.has
               /\ now < rl[c].t0 + PolicyMs(rl[c].endpoint) )
             => /\ rl'[c].resp.allowed
                /\ rl'[c].resp.remaining = PolicyMax(rl[c].endpoint) - 1
                /\ WindowOf(limits', rl[c].endpoint)
                     = [has |-> TRUE, count |-> 1, windowStart |-> rl[c].t0]
      ]_vars

\* C32 witness: a reset has removed the window of its endpoint, and the window
\* of another endpoint is still stored with its count
C32_Witness ==
    \E c \in Slots :
        /\ rl[c].pc = "done"
        /\ rl[c].op = "reset"
        /\ Configured(rl[c].endpoint)
        /\ issued[rl[c].endpoint] = 0
        /\ rl[c].endpoint \notin DOMAIN LoadLimits(limits)
        /\ \E e \in DOMAIN LoadLimits(limits) : LoadLimits(limits)[e].count >= 1

\* C33: every stored window belongs to an endpoint that has a policy and its
\* count is at least 0 and at most the maxRequests of the policy, in every
\* state of every interleaving of requests and clock steps
C33_CountInBounds ==
    \A e \in DOMAIN LoadLimits(limits) :
        /\ Configured(e)
        /\ LoadLimits(limits)[e].count >= 0
        /\ LoadLimits(limits)[e].count <= RATE_LIMIT_CONFIG[e].maxRequests

\* C33 witness: the window of an endpoint is full and a further call on it has
\* been denied, while a request is waiting to be delivered
C33_Witness ==
    \E c, d \in Slots :
        /\ Answered(c)
        /\ ~rl[c].resp.allowed
        /\ WindowOf(limits, rl[c].endpoint).count = PolicyMax(rl[c].endpoint)
        /\ rl[c].pre.count = PolicyMax(rl[c].endpoint)
        /\ rl[d].pc = "queued"

\* C34: a check-and-increment call on an endpoint with a policy increments the
\* stored count if and only if its response has allowed = true: a call whose
\* increment was made (it reached the re-check) is answered allowed, and a call
\* answered straight after the first check is denied and leaves the count alone
C34_CountedIffAllowed ==
    [][ \A c \in Slots :
          /\ ( /\ rl[c].pc = "recheck"
               /\ rl'[c].pc = "done"
               /\ Configured(rl[c].endpoint) )
             => rl'[c].resp.allowed
          /\ ( /\ rl[c].pc = "queued"
               /\ rl'[c].pc = "done"
               /\ rl'[c].op = "check-and-increment"
               /\ Configured(rl'[c].endpoint) )
             => /\ ~rl'[c].resp.allowed
                /\ WindowOf(limits', rl'[c].endpoint).count
                      = WindowOf(limits, rl'[c].endpoint).count ]_vars

\* C35: the increment of an allowed check-and-increment call is not lost when
\* the clock advances between the steps of the call: when the call is answered
\* allowed = true the stored window of the endpoint has count >= 1 and the
\* remaining of the response is maxRequests minus the stored count
C35_IncrementKept ==
    [][ \A c \in Slots :
          ( /\ rl[c].pc = "recheck"
            /\ rl'[c].pc = "done"
            /\ Configured(rl[c].endpoint)
            /\ rl'[c].resp.allowed )
          => /\ WindowOf(limits', rl[c].endpoint).has
             /\ WindowOf(limits', rl[c].endpoint).count >= 1
             /\ rl'[c].resp.remaining
                   = PolicyMax(rl[c].endpoint) - WindowOf(limits', rl[c].endpoint).count ]_vars

----------------------------------------------------------------------------
(* Claims about LectureMemory, checked under SpecLM *)

RECURSIVE Flatten(_)
\* the messages of the calls ts in call order: the user message of each call,
\* directly followed by its assistant message when the model answered
Flatten(ts) ==
    IF ts = <<>> THEN <<>>
    ELSE LET last == ts[Len(ts)]
         IN  Flatten(SubSeq(ts, 1, Len(ts) - 1)) \o
             (IF last.outcome = "ok" THEN <<last.user, last.assistant>> ELSE <<last.user>>)

NumTurns(outcome) == Cardinality({i \in 1..Len(turns) : turns[i].outcome = outcome})
Stored(m) == \E i \in 1..Len(history.messages) : history.messages[i] = m
IsPrefix(p, q) == Len(p) <= Len(q) /\ SubSeq(q, 1, Len(p)) = p
Quiescent == \A c \in ChatSlots : ~Suspended(c)

\* C3: when Chat calls on one key overlap, no message written by any of them
\* is lost or overwritten: once they have all completed with an answer, the
\* stored history holds the user and the assistant message of every call
C3_NoLostMessage ==
    ( Quiescent /\ \A i \in 1..Len(turns) : turns[i].outcome = "ok" )
    => /\ Len(history.messages) = 2 * Len(turns)
       /\ \A i \in 1..Len(turns) : Stored(turns[i].user) /\ Stored(turns[i].assistant)

\* C8: when the Chat calls on a key run one after another, the stored history
\* is the user message of each call in call order, each directly followed by
\* its assistant message when the inference succeeded; its length is 2 per
\* succeeded call and 1 per failed call (and 1 for a call awaiting the model)
C8_SequentialHistory ==
    ~overlap =>
        /\ history.messages = Flatten(turns)
        /\ Len(history.messages) = 2 * NumTurns("ok") + NumTurns("fail") + NumTurns("pending")

\* C8 witness: a failed call followed by a succeeded one, run one after the
\* other, left three messages
C8_Witness ==
    /\ ~overlap
    /\ Quiescent
    /\ Len(turns) = 2
    /\ turns[1].outcome = "fail"
    /\ turns[2].outcome = "ok"
    /\ Len(history.messages) = 3

\* C9: in every step the stored history before the step is a prefix of the
\* stored history after it
C9_AppendOnly ==
    [][ IsPrefix(history.messages, history'.messages) ]_vars

\* C10: the step that issues the inference call leaves the user's message
\* stored as the last message; the step in which the inference call fails
\* answers with an error, appends nothing and removes nothing from the stored
\* history, and with no other call in between the user's message is still its
\* last message
C10_UserMessageDurable ==
    [][ \A c \in ChatSlots :
          /\ ( chat[c].pc = "queued" /\ chat'[c].pc = "ai" )
             => /\ history'.present
                /\ Len(history'.messages) = Len(history.messages) + 1
                /\ history'.messages[Len(history'.messages)] = turns'[chat'[c].turn].user
                /\ turns'[chat'[c].turn].user.role = "user"
          /\ ( chat[c].pc = "ai" /\ chat'[c].pc = "done" /\ turns'[chat[c].turn].outcome = "fail" )
             => /\ chat'[c].status = 500
                /\ history' = history
                /\ ( ~overlap =>
                       history'.messages[Len(history'.messages)] = turns[chat[c].turn].user )
      ]_vars

\* C10 witness: a call whose inference failed has its error response and its
\* user message is the last stored message
C10_Witness ==
    \E c \in ChatSlots :
        /\ chat[c].pc = "done"
        /\ chat[c].status = 500
        /\ history.present
        /\ history.messages[Len(history.messages)] = turns[chat[c].turn].user
        /\ turns[chat[c].turn].outcome = "fail"

\* the role and the content of each message of a history, in order
RoleContent(messages) ==
    [i \in 1..Len(messages) |->
        [role |-> messages[i].role, content |-> messages[i].content]]

\* C11: the model input of a Chat call is the fixed grounding instruction
\* followed by the whole history stored when the call was delivered, in order,
\* and ends with the new user message; when the calls run one after another it
\* holds the user and the assistant message of every earlier answered call
\* before the new user message
C11_ModelInput ==
    [][ \A c \in ChatSlots :
          ( chat[c].pc = "queued" /\ chat'[c].pc = "ai" )
          => LET input == chat'[c].input
                 user == turns'[chat'[c].turn].user
             IN  /\ input[1] = [role |-> "system", content |-> systemPrompt]
                 /\ Len(input) = Len(history.messages) + 2
                 /\ SubSeq(input, 2, Len(input) - 1) = RoleContent(history.messages)
                 /\ input[Len(input)] = [role |-> "user", content |-> user.content]
                 /\ Tail(input) = RoleContent(history'.messages)
                 /\ ( ~overlap' => Tail(input) = RoleContent(Flatten(turns')) )
      ]_vars

\* C11 witness: the second of two calls run one after the other is at the
\* model with the first call's user and assistant message before its own
C11_Witness ==
    \E c \in ChatSlots :
        /\ Suspended(c)
        /\ ~overlap
        /\ chat[c].turn = 2
        /\ turns[1].outcome = "ok"
        /\ Len(chat[c].input) = 4
        /\ chat[c].input[2] = [role |-> "user", content |-> turns[1].user.content]
        /\ chat[c].input[3] = [role |-> "assistant", content |-> turns[1].assistant.content]
        /\ chat[c].input[4] = [role |-> "user", content |-> turns[2].user.content]

\* C27: a /chat call the gateway has timed out is not cancelled: when the model
\* answers, the handler still stores its history with the user message and the
\* assistant reply; a retry with the same message that finds both stored
\* appends a second copy of the user message after them
C27_TimedOutCallGoesOn ==
    [][ \A c \in ChatSlots :
          /\ ( Suspended(c) /\ chat[c].timedOut /\ chat'[c].pc = "done"
                /\ chat'[c].status # 500 )
             => /\ chat'[c].status = 200
                /\ history'.present
                /\ history'.messages
                      = Append(chat[c].local, turns'[chat[c].turn].assistant)
                /\ Stored(turns[chat[c].turn].user)'
                /\ turns'[chat[c].turn].assistant.role = "assistant"
          /\ \A d \in ChatSlots :
                ( /\ chat[c].pc = "queued" /\ chat'[c].pc = "ai"
                  /\ chat[d].pc = "done" /\ chat[d].timedOut /\ chat[d].status = 200
                  /\ Stored(turns[chat[d].turn].user)
                  /\ Stored(turns[chat[d].turn].assistant)
                  /\ turns'[chat'[c].turn].user.content = turns[chat[d].turn].user.content )
                => /\ history'.messages
                         = Append(history.messages, turns'[chat'[c].turn].user)
                   /\ Stored(turns[chat[d].turn].user)'
                   /\ Stored(turns[chat[d].turn].assistant)'
      ]_vars

\* C27 witness: the first call timed out at the gateway and went on to store
\* its user message and the reply; the retry, started after that, stored the
\* same message again behind them
C27_Witness ==
    /\ chat[1].timedOut
    /\ chat[1].pc = "done"
    /\ chat[1].status = 200
    /\ chat[2].pc = "ai"
    /\ ~overlap
    /\ Len(history.messages) = 3
    /\ history.messages[1].role = "user"
    /\ history.messages[2].role = "assistant"
    /\ history.messages[3].role = "user"
    /\ history.messages[3].content = history.messages[1].content

\* C40: a step that stores a lecture text leaves the chat history of the key
\* as it was, and a step of a chat request (the read and first put, the model's
\* answer and second put, the failure of the model call) leaves the stored
\* rawText as it was
C40_SeparateKeys ==
    [][ /\ ( rawText' # rawText ) => ( history' = history /\ chat' = chat )
        /\ ( chat' # chat \/ history' # history ) => rawText' = rawText ]_vars

\* C40 witness: the key holds a lecture text that was stored and the history
\* of a chat request that was answered
C40_Witness ==
    /\ rawText.present
    /\ rawText.value # ""
    /\ Len(LoadHistory(history)) >= 2
    /\ \E c \in ChatSlots : chat[c].pc = "done" /\ chat[c].status = 200

----------------------------------------------------------------------------
(* Claims about the chunked pipeline, checked under SpecPipe *)

RECURSIVE JoinChunks(_)
\* the chunks joined by single spaces
JoinChunks(chunks) ==
    IF chunks = <<>> THEN <<>>
    ELSE IF Len(chunks) = 1 THEN chunks[1]
    ELSE chunks[1] \o Space \o JoinChunks(Tail(chunks))

\* the whitespace-delimited tokens of a string, in order
TokensOf(str) == SelectSeq(Split(str), LAMBDA word : word # <<>>)

RECURSIVE Concat(_)
Concat(seqs) == IF seqs = <<>> THEN <<>> ELSE Head(seqs) \o Concat(Tail(seqs))

Chunked == pipe.pc # "idle" /\ StrLen(pipe.text) > MAX_CHARS_PER_CHUNK

\* C18: for a text longer than C the tokens of the chunks, taken chunk by
\* chunk, are the tokens of the text in their order, each exactly once and
\* whole; the chunks joined by single spaces have the text's token sequence
C18_ChunksPartitionTokens ==
    Chunked =>
        /\ Concat([i \in 1..Len(pipe.chunks) |-> TokensOf(pipe.chunks[i])])
               = TokensOf(pipe.text)
        /\ TokensOf(JoinChunks(pipe.chunks)) = TokensOf(pipe.text)
        /\ \A i \in 1..Len(TokensOf(pipe.text)) :
               /\ Len(TokensOf(pipe.text)[i]) = 1
               /\ TokensOf(pipe.text)[i][1].tok = i

\* C18 witness: a text longer than C was cut into three chunks of one token
C18_Witness ==
    /\ Chunked
    /\ Len(pipe.chunks) = 3
    /\ Len(TokensOf(pipe.text)) = 3
    /\ \A i \in 1..3 : TokensOf(pipe.chunks[i]) = <<TokensOf(pipe.text)[i]>>

\* the tokens of a chunk
ChunkTokens(chunk) == SelectSeq(chunk, LAMBDA run : ~IsWs(run))
Oversized(run) == ~IsWs(run) /\ run.len > MAX_CHARS_PER_CHUNK

\* C19: every chunk is at most C characters long, except a chunk that is
\* exactly one token longer than C; a token longer than C is whole and alone in
\* its chunk
C19_ChunkBudget ==
    Chunked =>
        \A i \in 1..Len(pipe.chunks) :
            LET chunk == pipe.chunks[i]
            IN  /\ \/ StrLen(chunk) <= MAX_CHARS_PER_CHUNK
                   \/ Len(chunk) = 1 /\ Oversized(chunk[1])
                /\ ( \E j \in 1..Len(chunk) : Oversized(chunk[j]) )
                   => /\ Len(ChunkTokens(chunk)) = 1
                      /\ \E k \in 1..Len(pipe.text) : pipe.text[k] = ChunkTokens(chunk)[1]

\* C19 witness: a chunking with an oversized token alone in a chunk between two
\* chunks that are within the budget
C19_Witness ==
    /\ Chunked
    /\ Len(pipe.chunks) = 3
    /\ StrLen(pipe.chunks[1]) = MAX_CHARS_PER_CHUNK - 1
    /\ pipe.chunks[2] = <<Token(2, MAX_CHARS_PER_CHUNK + 1)>>
    /\ StrLen(pipe.chunks[3]) <= MAX_CHARS_PER_CHUNK
    /\ pipe.chunks[3] # <<>>

\* the calls of a request that were made for one chunk
PartCalls == SelectSeq(pipe.calls, LAMBDA call : call.kind = "part")
CombineCalls == SelectSeq(pipe.calls, LAMBDA call : call.kind = "combine")

\* C20: a request whose text was cut into n > 1 chunks and that was answered
\* made n calls for one chunk each, the i-th on chunk i as part i of n, then
\* one combine call on the n outputs in chunk order, and nothing else; the
\* result is the output of the combine call
C20_MapThenCombine ==
    ( Chunked /\ Len(pipe.chunks) > 1 /\ pipe.pc = "done" /\ pipe.status = 200 )
    => LET n == Len(pipe.chunks)
       IN  /\ Len(pipe.calls) = n + 1
           /\ \A i \in 1..n :
                  /\ pipe.calls[i].kind = "part"
                  /\ pipe.calls[i].part = i
                  /\ pipe.calls[i].of = n
                  /\ pipe.calls[i].input = pipe.chunks[i]
           /\ pipe.calls[n + 1].kind = "combine"
           /\ Len(pipe.calls[n + 1].sections) = n
           /\ \A i \in 1..n :
                  /\ pipe.calls[n + 1].sections[i].section = i
                  /\ pipe.calls[n + 1].sections[i].text = AiResponse(i)
           /\ pipe.result = AiResponse(n + 1)

\* C20 witness: three chunks gave three calls for a part and one combine call
C20_Witness ==
    /\ Chunked
    /\ pipe.pc = "done"
    /\ pipe.status = 200
    /\ Len(pipe.chunks) = 3
    /\ Len(PartCalls) = 3
    /\ Len(CombineCalls) = 1
    /\ pipe.calls[4].kind = "combine"
    /\ pipe.result = AiResponse(4)

\* C21: a request whose text is at most C characters long and that was
\* answered made exactly one inference call, on the whole text, with no chunk
\* list and no combine call, and its result is the output of that call
C21_ShortDirect ==
    ( pipe.pc = "done" /\ pipe.status = 200 /\ StrLen(pipe.text) <= MAX_CHARS_PER_CHUNK )
    => /\ pipe.calls = <<AiCall("direct", 1, 1, pipe.text, <<>>)>>
       /\ pipe.chunks = <<>>
       /\ PartCalls = <<>> /\ CombineCalls = <<>>
       /\ pipe.result = AiResponse(1)

\* C21 witness: a text of exactly C characters was answered from one call
C21_Witness ==
    /\ pipe.pc = "done"
    /\ pipe.status = 200
    /\ StrLen(pipe.text) = MAX_CHARS_PER_CHUNK
    /\ Len(pipe.calls) = 1
    /\ pipe.calls[1].kind = "direct"

\* C22: a request whose text is longer than C but was cut into exactly one
\* chunk, and that was answered, made exactly one inference call, on that
\* chunk, and no combine call; its result is the output of that call
C22_SingleChunk ==
    ( Chunked /\ Len(pipe.chunks) = 1 /\ pipe.pc = "done" /\ pipe.status = 200 )
    => /\ pipe.calls = <<AiCall("part", 1, 1, pipe.chunks[1], <<>>)>>
       /\ CombineCalls = <<>>
       /\ pipe.result = AiResponse(1)

\* C22 witness: a text longer than C, most of it whitespace, gave one chunk
\* and was answered from the call on it
C22_Witness ==
    /\ Chunked
    /\ Len(pipe.chunks) = 1
    /\ pipe.pc = "done"
    /\ pipe.status = 200
    /\ pipe.result = AiResponse(1)
    /\ StrLen(pipe.chunks[1]) < MAX_CHARS_PER_CHUNK

DirectCalls == SelectSeq(pipe.calls, LAMBDA call : call.kind = "direct")

C36_NoEmptyChunk ==
    Chunked
    => /\ \A i \in 1..Len(pipe.chunks) : TokensOf(pipe.chunks[i]) # <<>>
       /\ \A k \in 1..Len(pipe.calls) :
              pipe.calls[k].kind = "part" => pipe.calls[k].input # <<>>

\* C37: a summarize request on a non-empty text that was answered 200 made at
\* least one inference call and its result is the output of one of its calls
C37_AnsweredFromCall ==
    ( pipe.mode = "summarize" /\ pipe.pc = "done" /\ pipe.status = 200 )
    => /\ pipe.text # <<>>
       /\ Len(pipe.calls) >= 1
       /\ \E k \in 1..Len(pipe.calls) : pipe.result = AiResponse(k)

----------------------------------------------------------------------------
(* Claims about the two modes of the pipeline, checked under SpecModes *)

----------------------------------------------------------------------------
(* Claims about the gateway and the actor routes it calls, checked under SpecGW *)

\* the step in which the gateway gets the outcome of its RateLimiter call
RateLimitStep == gw.pc = "ratelimit" /\ gw'.pc # "ratelimit"
\* nothing durable of the lecture changes in a step
LectureUntouched == rawText' = rawText /\ history' = history /\ owned' = owned

\* C13: when the gateway's call to the RateLimiter throws or comes back with
\* a status that is not a success, the request is treated as allowed and goes
\* on to its next stage: no 429 and no error response comes out of the failure
C13_FailOpen ==
    [][ ( RateLimitStep /\ gw'.rlReply \in {"threw", "status500"} )
        => /\ gw'.rateLimitStatus.allowed
           /\ gw'.pc = "validate"
           /\ gw'.status = 0
           /\ gw'.rateLimitBody = NoRateLimitBody
      ]_vars

\* C13 witness: a request whose RateLimiter call answered 500 was served
C13_Witness ==
    /\ gw.pc = "done"
    /\ gw.rlReply = "status500"
    /\ gw.status = 200
    /\ gw.lmOps = 1

\* C14: when check-and-increment answers allowed=false the gateway responds
\* 429 with the retryAfter, limit and resetAt of that status, and the request
\* makes no LectureMemory call, no inference call and no ownership write: it
\* ends there and nothing stored for the lecture changes
C14_DeniedResponse ==
    [][ /\ ( RateLimitStep /\ gw'.rlReply = "ok" /\ ~gw'.rateLimitStatus.allowed )
           => /\ gw'.pc = "done"
              /\ gw'.status = 429
              /\ gw'.rateLimitBody.retryAfter = gw'.rateLimitStatus.retryAfter
              /\ gw'.rateLimitBody.limit = gw'.rateLimitStatus.limit
              /\ gw'.rateLimitBody.resetAt = gw'.rateLimitStatus.resetAt
              /\ gw'.rateLimitBody.limit = RATE_LIMIT_CONFIG[EndpointOf(gw.route)].maxRequests
              /\ gw'.rateLimitBody.resetAt > now
              /\ gw'.lmOps = 0 /\ gw'.aiCalls = 0 /\ gw'.dbWrites = 0
              /\ LectureUntouched
        /\ ( gw.pc = "done" /\ gw.status = 429 )
           => /\ LectureUntouched
              /\ gw'.pc \in {"done", "session"}
      ]_vars

\* C14 witness: a denied chat request of the owner of a stored lecture was
\* answered 429 with the window's retryAfter
C14_Witness ==
    /\ gw.pc = "done"
    /\ gw.status = 429
    /\ gw.route = "chat"
    /\ gw.rateLimitBody.retryAfter = RATE_LIMIT_CONFIG["chat"].windowSeconds
    /\ gw.lmOps = 0
    /\ owned
    /\ rawText.present

\* the actor has answered a fetch of /raw-lecture-text
RawTextAnswered ==
    /\ gw.doPath = "/raw-lecture-text"
    /\ gw.doResponse # NoDoResponse

\* C15: the raw-text fetch on a lecture key returns exactly the text last
\* stored on the key, and a not-found error when no text was ever stored
C15_GetRawText ==
    RawTextAnswered =>
        IF rawText.present
        THEN /\ Ok(gw.doResponse)
             /\ gw.doResponse.json
             /\ gw.doResponse.rawText = rawText.value
        ELSE gw.doResponse.status = 404

\* C16: an extract-concepts request that passed the session, rate-limit and
\* ownership checks for a lecture whose text is stored, and during which no
\* collaborator failed, is answered 200 after at least one inference call
C16_ExtractSucceeds ==
    ( /\ gw.pc = "done"
      /\ gw.route = "extract"
      /\ gw.lmOps >= 1
      /\ ~gw.fault
      /\ rawText.present )
    => /\ gw.status = 200
       /\ gw.aiCalls >= 1

\* the step in which the actor answers a /lecture request, its storage working
StoreLectureStep ==
    /\ gw.pc = "actor"
    /\ gw'.doPath = "/lecture"
    /\ gw'.doResponse # NoDoResponse
    /\ ~gw'.fault

\* C17: a /lecture request with an empty text is answered with an error and
\* changes nothing stored under the key; one with a non-empty text leaves
\* exactly that text stored, whatever was stored before, so storing the text
\* that is already stored changes nothing; the chat history is not touched
C17_StoreLecture ==
    [][ StoreLectureStep
        => /\ history' = history
           /\ IF gw'.doBody = ""
              THEN /\ rawText' = rawText
                   /\ gw'.doResponse.status >= 400
              ELSE /\ rawText' = [present |-> TRUE, value |-> gw'.doBody]
                   /\ gw'.doResponse.status = 200
                   /\ ( rawText = [present |-> TRUE, value |-> gw'.doBody]
                         => rawText' = rawText )
      ]_vars

\* C17 witness: an empty text was rejected with 400 and the text stored
\* earlier, which had replaced the uploaded one, is still there
C17_Witness ==
    /\ gw.pc = "done"
    /\ gw.doPath = "/lecture"
    /\ gw.doBody = ""
    /\ gw.status = 400
    /\ history.present
    /\ rawText = [present |-> TRUE, value |-> "lecture B"]

\* C23: every dispatch of the gateway to the Lecture Memory actor is bounded by
\* the timeout: when the actor never responds, the gateway still eventually
\* returns a failure response
C23_DispatchBounded ==
    (gw.pc = "waiting") ~> (gw.pc = "done" /\ gw.status >= 400)

\* the step in which a call of the gateway to the actor fails: the fetch
\* throws or times out, or the actor answers with a status that is no success
ActorCallFails ==
    /\ gw.pc = "actor"
    /\ gw'.pc # "waiting"
    /\ gw'.fault \/ ( gw'.doResponse # NoDoResponse /\ ~Ok(gw'.doResponse) )

\* C24: a failed call of the Lecture Memory actor ends the request with an
\* error status and never with a success; in upload no ownership record is
\* written after a failed store, the record is written only after the text of
\* the request was stored, and so a record exists only where a text is stored
C24_ActorFailureSurfaced ==
    [][ /\ ActorCallFails
           => /\ gw'.pc = "done"
              /\ gw'.status >= 400
              /\ owned' = owned
              /\ gw'.dbWrites = gw.dbWrites
        /\ gw'.pc = "insert"
           => rawText' = [present |-> TRUE, value |-> gw'.doBody]
        /\ owned' => rawText'.present
      ]_vars

\* C24 witness: the actor's put failed during an upload: the gateway answered
\* 500, nothing is stored and no ownership record exists
C24_Witness ==
    /\ gw.pc = "done"
    /\ gw.route = "upload"
    /\ gw.doResponse.status = 500
    /\ gw.status = 500
    /\ gw.dbWrites = 0
    /\ ~owned
    /\ ~rawText.present

\* C38: only a request that reaches an actor operation or the pipeline uses up
\* rate-limit quota: a request answered 403 (ownership) or 400 (missing lecture
\* id, text or file) has left the count of the caller's window as it was
C38_RejectedNotCounted ==
    ( gw.pc = "done" /\ gw.counted > 0 )
    => /\ gw.status \notin {400, 403}
       /\ gw.lmOps + gw.aiCalls > 0

\* C39: a request whose check-and-increment call is never answered by the
\* RateLimiter still goes on, failing open, and is eventually responded to
C39_HungLimiterFailsOpen ==
    ( gw.pc = "ratelimitWaiting" ) ~> ( gw.pc = "done" )

----------------------------------------------------------------------------
(* Claims about the faults of an instance, checked under SpecFaults *)

C30_StorageFailureIsError ==
    [][ /\ \A c \in Slots :
              ( rl'[c].threw /\ ~rl[c].threw )
              => /\ rl'[c].pc = "done"
                 /\ ResponseStatus(rl'[c]) = 500
                 /\ rl'[c].resp = NoStatus
                 /\ limits' = limits
        /\ \A c \in ChatSlots :
              ( chat'[c].threw /\ ~chat[c].threw )
              => /\ chat'[c].pc = "done"
                 /\ chat'[c].status = 500
                 /\ chat'[c].response = ""
                 /\ history' = history
                 /\ chat[c].pc = "queued"
                    => /\ chat'[c].input = <<>>
                       /\ chat'[c].turn = 0
                       /\ turns' = turns
      ]_vars

\* C30 witness: after a call that was answered, the first storage operation of
\* the next /chat call threw: it was answered 500, the model was not called
\* for it and the history is that of the first call
C30_Witness ==
    /\ chat[1].pc = "done"
    /\ chat[1].status = 200
    /\ chat[2].pc = "done"
    /\ chat[2].threw
    /\ chat[2].status = 500
    /\ chat[2].turn = 0
    /\ Len(turns) = 1
    /\ Len(history.messages) = 2

====
